---- MODULE Spec2Model ----
(***************************************************************************)
(* FixItNow API (src/main.py): a FastAPI backend that builds a prompt,     *)
(* makes one outbound call to an LLM endpoint, parses the returned text as *)
(* JSON and relays it; /fix-image also stores an uploaded file.            *)
(*                                                                         *)
(* Text is modelled at character level: a Python str is a sequence of      *)
(* one-character strings.                                                  *)
(***************************************************************************)
EXTENDS Integers, Sequences, FiniteSets, TLC

(***************************************************************************)
(* Python values produced by json.loads.  Every value is a record with the *)
(* same fields, so that any two values can be compared:                    *)
(*   t = "int"    n           a Python int                                 *)
(*   t = "float"  n, e        the number written <n>e<e>, a float when in  *)
(*                            range (not normalised: two floats are        *)
(*                            compared only when they come from the same   *)
(*                            literal)                                     *)
(*   t = "inf"                float("inf")                                 *)
(*   t = "str"    s           a str (sequence of characters)               *)
(*   t = "list"   a           a list                                       *)
(*   t = "dict"   o           a dict: a function from keys (character      *)
(*                            sequences) to values; dict equality ignores  *)
(*                            insertion order, as in Python                *)
(*   t = "none"               None                                         *)
(***************************************************************************)
PyVal(t, n, e, s, a, o) == [t |-> t, n |-> n, e |-> e, s |-> s, a |-> a, o |-> o]
PyInt(n) == PyVal("int", n, 0, <<>>, <<>>, <<>>)
PyFloat(n, e) == PyVal("float", n, e, <<>>, <<>>, <<>>)
PyInf == PyVal("inf", 0, 0, <<>>, <<>>, <<>>)
PyStr(s) == PyVal("str", 0, 0, s, <<>>, <<>>)
PyList(a) == PyVal("list", 0, 0, <<>>, a, <<>>)
PyDict(o) == PyVal("dict", 0, 0, <<>>, <<>>, o)
PyNone == PyVal("none", 0, 0, <<>>, <<>>, <<>>)

\* d[key] = value on a dict's mapping: a new key is added, an existing one replaced.
DictSet(o, key, value) ==
    [k \in (DOMAIN o) \cup {key} |-> IF k = key THEN value ELSE o[k]]

(***************************************************************************)
(* json.loads (src/main.py:89, 93), for the JSON subset of the model:      *)
(* objects, arrays, strings without escapes, and numbers of the form       *)
(* digits or digits "e" digits.  Omitted: "-", fractions, signed or        *)
(* upper-case exponents, backslash escapes, true/false/null.               *)
(***************************************************************************)
Digits == <<"0", "1", "2", "3", "4", "5", "6", "7", "8", "9">>
IsDigit(c) == \E d \in 1..10 : Digits[d] = c
DigitVal(c) == (CHOOSE d \in 1..10 : Digits[d] = c) - 1
JsonWS == {" ", "\n", "\t", "\r"}
\* characters json.loads rejects inside a string literal (strict mode)
ControlChars == {"\n", "\t", "\r"}
\* sys.float_info.max_10_exp: a float literal above 1.797...e308 parses to inf
DBL_MAX_10_EXP == 308

ParseFail == [ok |-> FALSE, v |-> PyNone, i |-> 0]
ParseOk(v, i) == [ok |-> TRUE, v |-> v, i |-> i]

\* the index of the first character at or after i that is not whitespace
RECURSIVE SkipWS(_, _)
SkipWS(s, i) ==
    IF i <= Len(s) /\ s[i] \in JsonWS THEN SkipWS(s, i + 1) ELSE i

\* the index just after the run of digits that starts at i
RECURSIVE DigitsEnd(_, _)
DigitsEnd(s, i) ==
    IF i <= Len(s) /\ IsDigit(s[i]) THEN DigitsEnd(s, i + 1) ELSE i

\* the number written by the digits s[i..j-1]
RECURSIVE DigitsValue(_, _, _)
DigitsValue(s, i, j) ==
    IF j <= i THEN 0 ELSE 10 * DigitsValue(s, i, j - 1) + DigitVal(s[j - 1])

\* n * 10^e exceeds the largest double (exact for n of at most four digits)
FloatOverflows(n, e) ==
    LET nd == IF n >= 1000 THEN 4 ELSE IF n >= 100 THEN 3 ELSE IF n >= 10 THEN 2 ELSE 1
        lead == IF nd = 4 THEN n ELSE IF nd = 3 THEN n * 10
                ELSE IF nd = 2 THEN n * 100 ELSE n * 1000
    IN  /\ n > 0
        /\ \/ e + nd - 1 > DBL_MAX_10_EXP
           \/ e + nd - 1 = DBL_MAX_10_EXP /\ lead > 1797

\* ParseNumber with a bug: the integer part is taken to be one digit long
ParseNumber_one_digit(s, i) ==
    LET n == DigitVal(s[i])
    IN  ParseOk(PyInt(n), i + 1)

\* a number at s[i]: (0 | [1-9][0-9]*) ( e [0-9]+ )?
ParseNumber(s, i) ==
    LET iend == IF s[i] = "0" THEN i + 1 ELSE DigitsEnd(s, i)
        n == DigitsValue(s, i, iend)
        hasExp == /\ iend + 1 <= Len(s)
                  /\ s[iend] = "e"
                  /\ IsDigit(s[iend + 1])
        eend == DigitsEnd(s, iend + 1)
        e == DigitsValue(s, iend + 1, eend)
    IN  IF ~hasExp THEN ParseOk(PyInt(n), iend)
        ELSE IF FloatOverflows(n, e) THEN ParseOk(PyInf, eend)
        ELSE ParseOk(PyFloat(n, e), eend)

\* the index of the closing quote of the string opened before i, 0 when the
\* string is unterminated or holds a control character
RECURSIVE StringEnd(_, _)
StringEnd(s, i) ==
    IF i > Len(s) THEN 0
    ELSE IF s[i] = "\"" THEN i
    ELSE IF s[i] \in ControlChars THEN 0
    ELSE StringEnd(s, i + 1)

\* a string literal whose opening quote is s[i]
ParseString(s, i) ==
    LET j == StringEnd(s, i + 1)
    IN  IF j = 0 THEN ParseFail ELSE ParseOk(PyStr(SubSeq(s, i + 1, j - 1)), j + 1)

RECURSIVE ParseValue(_, _), ParseMembers(_, _, _), ParseElements(_, _, _)

\* a value that starts exactly at s[i]
ParseValue(s, i) ==
    IF i > Len(s) THEN ParseFail
    ELSE IF s[i] = "\"" THEN ParseString(s, i)
    ELSE IF s[i] = "{" THEN
        LET j == SkipWS(s, i + 1)
        IN  IF j <= Len(s) /\ s[j] = "}" THEN ParseOk(PyDict(<<>>), j + 1)
            ELSE ParseMembers(s, j, <<>>)
    ELSE IF s[i] = "[" THEN
        LET j == SkipWS(s, i + 1)
        IN  IF j <= Len(s) /\ s[j] = "]" THEN ParseOk(PyList(<<>>), j + 1)
            ELSE ParseElements(s, j, <<>>)
    ELSE IF IsDigit(s[i]) THEN ParseNumber(s, i)
    ELSE ParseFail

\* the members of an object from the key at s[i] on; o holds the pairs read so
\* far (a repeated key keeps its last value)
ParseMembers(s, i, o) ==
    IF i > Len(s) \/ s[i] # "\"" THEN ParseFail
    ELSE
        LET key == ParseString(s, i)
            colon == SkipWS(s, key.i)
            val == ParseValue(s, SkipWS(s, colon + 1))
            nxt == SkipWS(s, val.i)
        IN  IF ~key.ok THEN ParseFail
            ELSE IF colon > Len(s) \/ s[colon] # ":" THEN ParseFail
            ELSE IF ~val.ok THEN ParseFail
            ELSE IF nxt > Len(s) THEN ParseFail
            ELSE IF s[nxt] = "}" THEN ParseOk(PyDict(DictSet(o, key.v.s, val.v)), nxt + 1)
            ELSE IF s[nxt] = "," THEN
                ParseMembers(s, SkipWS(s, nxt + 1), DictSet(o, key.v.s, val.v))
            ELSE ParseFail

\* the elements of an array from the value at s[i] on; a holds those read so far
ParseElements(s, i, a) ==
    LET val == ParseValue(s, i)
        nxt == SkipWS(s, val.i)
    IN  IF ~val.ok THEN ParseFail
        ELSE IF nxt > Len(s) THEN ParseFail
        ELSE IF s[nxt] = "]" THEN ParseOk(PyList(Append(a, val.v)), nxt + 1)
        ELSE IF s[nxt] = "," THEN
            ParseElements(s, SkipWS(s, nxt + 1), Append(a, val.v))
        ELSE ParseFail

\* json.loads(s): one value, with whitespace allowed around it and nothing else
json_loads(s) ==
    LET val == ParseValue(s, SkipWS(s, 1))
    IN  IF val.ok /\ SkipWS(s, val.i) = Len(s) + 1 THEN val ELSE ParseFail

(***************************************************************************)
(* build_repair_prompt (src/main.py:54-65)                                 *)
(***************************************************************************)
\* the literal `system` of build_repair_prompt; its one non-ASCII character, the
\* em dash, is the element "U+2014"
SYSTEM ==
    <<"Y", "o", "u", " ", "a", "r", "e", " ", "R", "e", "p", "a", "i", "r", "G", "P",
      "T", " ", "U+2014", " ", "a", "n", " ", "e", "x", "p", "e", "r", "t", " ", "t", "e",
      "c", "h", "n", "i", "c", "i", "a", "n", ".", " ", "R", "e", "t", "u", "r", "n",
      " ", "O", "N", "L", "Y", " ", "v", "a", "l", "i", "d", " ", "J", "S", "O", "N",
      " ", "w", "i", "t", "h", " ", "t", "h", "e", "s", "e", " ", "f", "i", "e", "l",
      "d", "s", ":", "\n", "d", "i", "a", "g", "n", "o", "s", "i", "s", ",", " ", "s",
      "t", "e", "p", "s", ",", " ", "t", "o", "o", "l", "s", ",", " ", "r", "i", "s",
      "k", "_", "l", "e", "v", "e", "l", ",", " ", "e", "s", "t", "i", "m", "a", "t",
      "e", "d", "_", "c", "o", "s", "t", ",", " ", "t", "i", "m", "e", "_", "m", "i",
      "n", "u", "t", "e", "s", ",", "\n", "w", "h", "e", "n", "_", "t", "o", "_", "c",
      "a", "l", "l", "_", "p", "r", "o", ",", " ", "q", "u", "i", "c", "k", "_", "c",
      "h", "e", "c", "k", ",", " ", "s", "a", "f", "e", "t", "y", "_", "n", "o", "t",
      "e", "s", ".", "\n", "N", "o", " ", "e", "x", "p", "l", "a", "n", "a", "t", "i",
      "o", "n", "s", " ", "o", "u", "t", "s", "i", "d", "e", " ", "J", "S", "O", "N",
      ".", " ", "K", "e", "e", "p", " ", "r", "e", "s", "p", "o", "n", "s", "e", "s",
      " ", "p", "r", "a", "c", "t", "i", "c", "a", "l", " ", "a", "n", "d", " ", "c",
      "o", "n", "c", "i", "s", "e", ".">>
PROBLEM_PREFIX == <<"P", "r", "o", "b", "l", "e", "m", ":", " ">>
IMAGE_HINT_SEP ==
    <<" ", "|", " ", "I", "m", "a", "g", "e", " ", "h", "i", "n", "t", ":", " ">>

\* Optional[str]: None, or a str
NoneStr == [none |-> TRUE, s |-> <<>>]
SomeStr(s) == [none |-> FALSE, s |-> s]
\* the truth value of an Optional[str]: None and "" are false
Truthy(h) == ~h.none /\ Len(h.s) > 0

\* the characters str.strip() removes (the ASCII ones the model uses)
PyWS == {" ", "\n", "\t", "\r"}
RECURSIVE LStrip(_)
LStrip(s) == IF Len(s) > 0 /\ s[1] \in PyWS THEN LStrip(Tail(s)) ELSE s
RECURSIVE RStrip(_)
RStrip(s) ==
    IF Len(s) > 0 /\ s[Len(s)] \in PyWS THEN RStrip(SubSeq(s, 1, Len(s) - 1)) ELSE s
strip(s) == RStrip(LStrip(s))

\* build_repair_prompt with a bug: the problem text is not stripped
build_repair_prompt_unstripped(user_text, image_hint) ==
    LET user == PROBLEM_PREFIX \o user_text
        user2 == IF Truthy(image_hint) THEN user \o IMAGE_HINT_SEP \o image_hint.s
                 ELSE user
    IN  SYSTEM \o <<"\n">> \o user2

\* build_repair_prompt with a bug: the hint is appended without its separator
build_repair_prompt_unseparated(user_text, image_hint) ==
    LET user == PROBLEM_PREFIX \o strip(user_text)
        user2 == IF Truthy(image_hint) THEN user \o image_hint.s ELSE user
    IN  SYSTEM \o <<"\n">> \o user2

build_repair_prompt(user_text, image_hint) ==
    LET user == PROBLEM_PREFIX \o strip(user_text)
        user2 == IF Truthy(image_hint) THEN user \o IMAGE_HINT_SEP \o image_hint.s
                 ELSE user
    IN  SYSTEM \o <<"\n">> \o user2

(***************************************************************************)
(* call_llm (src/main.py:68-94)                                            *)
(***************************************************************************)
\* an exception: its class and str(e)
Exc(cls, msg) == [cls |-> cls, msg |-> msg]
NoExc == Exc("", <<>>)
\* how a call ends: it returns value, or raises exc
Return(v) == [raised |-> FALSE, value |-> v, exc |-> NoExc]
Raise(e) == [raised |-> TRUE, value |-> PyNone, exc |-> e]

ERR_API ==
    <<"G", "e", "m", "i", "n", "i", " ", "A", "P", "I", " ", "e", "r", "r", "o", "r",
      ":", " ">>
ERR_REQUEST ==
    <<"R", "e", "q", "u", "e", "s", "t", " ", "f", "a", "i", "l", "e", "d", ":", " ">>
ERR_NO_CANDIDATES ==
    <<"N", "o", " ", "c", "a", "n", "d", "i", "d", "a", "t", "e", "s", " ", "r", "e",
      "t", "u", "r", "n", "e", "d", ":", " ">>
ERR_INVALID_JSON ==
    <<"G", "e", "m", "i", "n", "i", " ", "r", "e", "t", "u", "r", "n", "e", "d", " ",
      "i", "n", "v", "a", "l", "i", "d", " ", "J", "S", "O", "N", ":", "\n">>
\* str() of a json.JSONDecodeError: it names what the decoder expected and a
\* position, never the text; its wording is not modelled further
JSON_DECODE_MSG ==
    <<"E", "x", "p", "e", "c", "t", "i", "n", "g", " ", "v", "a", "l", "u", "e">>
\* str(KeyError("content"))
KEY_ERROR_MSG == <<"'", "c", "o", "n", "t", "e", "n", "t", "'">>

\* re_search with a bug: the star is lazy, so the match ends at the first "}"
re_search_lazy(s) ==
    LET opens == {i \in 1..Len(s) : s[i] = "{" /\ \E j \in (i + 1)..Len(s) : s[j] = "}"}
    IN  IF opens = {} THEN [matched |-> FALSE, group |-> <<>>]
        ELSE
            LET i == CHOOSE x \in opens : \A y \in opens : x <= y
                closes == {j \in (i + 1)..Len(s) : s[j] = "}"}
                j == CHOOSE x \in closes : \A y \in closes : x <= y
            IN  [matched |-> TRUE, group |-> SubSeq(s, i, j)]

\* re.search(r"\{[\s\S]*\}", s): the leftmost "{" that has a "}" after it, and,
\* the star being greedy, everything up to the last "}"
re_search(s) ==
    LET opens == {i \in 1..Len(s) : s[i] = "{" /\ \E j \in (i + 1)..Len(s) : s[j] = "}"}
    IN  IF opens = {} THEN [matched |-> FALSE, group |-> <<>>]
        ELSE
            LET i == CHOOSE x \in opens : \A y \in opens : x <= y
                closes == {j \in (i + 1)..Len(s) : s[j] = "}"}
                j == CHOOSE x \in closes : \A y \in closes : y <= x
            IN  [matched |-> TRUE, group |-> SubSeq(s, i, j)]

\* "Parse JSON robustly" (lines 87-94): the text as a whole, else the span the
\* regular expression finds
parse_json_robustly(content) ==
    LET whole == json_loads(content)
        match == re_search(content)
        span == json_loads(match.group)
    IN  IF whole.ok THEN Return(whole.v)
        ELSE IF match.matched THEN
            IF span.ok THEN Return(span.v)
            ELSE Raise(Exc("JSONDecodeError", JSON_DECODE_MSG))
        ELSE Raise(Exc("ValueError", ERR_INVALID_JSON \o content))

(***************************************************************************)
(* What the awaited client.post brings back (the environment's choice):    *)
(*   "http_status_error"  a non-2xx status, text = the upstream body       *)
(*   "request_error"      httpx.RequestError (transport failure, timeout), *)
(*                        text = str(e)                                    *)
(*   "no_candidates"      a 2xx body {} (no candidate)                     *)
(*   "bad_shape"          a 2xx body whose first candidate lacks "content" *)
(*   "candidate"          a 2xx body whose first candidate holds text      *)
(***************************************************************************)
Outcome(kind, text) == [kind |-> kind, text |-> text]
NoOutcome == Outcome("", <<>>)

\* call_llm from the return of client.post on (lines 74-94)
call_llm(outcome) ==
    IF outcome.kind = "http_status_error" THEN
        Raise(Exc("RuntimeError", ERR_API \o outcome.text))
    ELSE IF outcome.kind = "request_error" THEN
        Raise(Exc("RuntimeError", ERR_REQUEST \o outcome.text))
    ELSE IF outcome.kind = "no_candidates" THEN
        Raise(Exc("RuntimeError", ERR_NO_CANDIDATES \o <<"{", "}">>))
    ELSE IF outcome.kind = "bad_shape" THEN
        Raise(Exc("KeyError", KEY_ERROR_MSG))
    ELSE parse_json_robustly(outcome.text)

(***************************************************************************)
(* Responses.  media is "application/json" for a JSONResponse; an          *)
(* exception that leaves a handler makes the server answer 500 with the    *)
(* plain text "Internal Server Error".                                     *)
(***************************************************************************)
ERROR_KEY == <<"e", "r", "r", "o", "r">>
IMAGE_SAVED_KEY ==
    <<"_", "i", "m", "a", "g", "e", "_", "s", "a", "v", "e", "d">>
INTERNAL_SERVER_ERROR ==
    <<"I", "n", "t", "e", "r", "n", "a", "l", " ", "S", "e", "r", "v", "e", "r", " ",
      "E", "r", "r", "o", "r">>
OUT_OF_RANGE_MSG ==
    <<"O", "u", "t", " ", "o", "f", " ", "r", "a", "n", "g", "e", " ", "f", "l", "o",
      "a", "t", " ", "v", "a", "l", "u", "e", "s", " ", "a", "r", "e", " ", "n", "o",
      "t", " ", "J", "S", "O", "N", " ", "c", "o", "m", "p", "l", "i", "a", "n", "t">>

Response(status, media, body) == [status |-> status, media |-> media, body |-> body]
ServerErrorResponse == Response(500, "text/plain", PyStr(INTERNAL_SERVER_ERROR))

\* the value holds float("inf") somewhere
RECURSIVE HasInf(_)
HasInf(v) ==
    \/ v.t = "inf"
    \/ \E i \in DOMAIN v.a : HasInf(v.a[i])
    \/ \E k \in DOMAIN v.o : HasInf(v.o[k])

\* JSONResponse(content, status_code): rendering (json.dumps with allow_nan=False)
\* raises ValueError on an out-of-range float
JSONResponse(content, status) ==
    IF HasInf(content) THEN Raise(Exc("ValueError", OUT_OF_RANGE_MSG))
    ELSE Return(Response(status, "application/json", content))

\* JSONResponse({"error": str(e)}, status_code=500) (lines 104, 124)
ErrorResponse(e) == Response(500, "application/json", PyDict(ERROR_KEY :> PyStr(e.msg)))

\* how a handler ends: the response the client gets, the exception raised while
\* processing (NoExc when none) and whether it left the handler uncaught
Handled(resp, e) == [resp |-> resp, exc |-> e, escaped |-> FALSE]
Escaped(e) == [resp |-> ServerErrorResponse, exc |-> e, escaped |-> TRUE]

\* fix once call_llm has returned or raised, r telling which (lines 101-104)
fix_finish(r) ==
    LET j == JSONResponse(r.value, 200)
    IN  IF r.raised THEN Handled(ErrorResponse(r.exc), r.exc)
        ELSE IF j.raised THEN Handled(ErrorResponse(j.exc), j.exc)
        ELSE Handled(j.value, NoExc)

\* str() of the TypeError that result["_image_saved"] = ... raises when result
\* is not a dict (the message's leading type name is left out)
TYPE_ERROR_MSG ==
    <<"o", "b", "j", "e", "c", "t", " ", "d", "o", "e", "s", " ", "n", "o", "t", " ",
      "s", "u", "p", "p", "o", "r", "t", " ", "i", "t", "e", "m", " ", "a", "s", "s",
      "i", "g", "n", "m", "e", "n", "t">>

\* fix_image once call_llm has returned or raised, r telling which (lines 121-129)
fix_image_finish(r, path) ==
    LET result == IF Truthy(path)
                  THEN PyDict(DictSet(r.value.o, IMAGE_SAVED_KEY, PyStr(path.s)))
                  ELSE r.value
        j == JSONResponse(result, 200)
    IN  IF r.raised THEN Handled(ErrorResponse(r.exc), r.exc)
        ELSE IF Truthy(path) /\ r.value.t # "dict" THEN
            Escaped(Exc("TypeError", TYPE_ERROR_MSG))
        ELSE IF j.raised THEN Escaped(j.exc)
        ELSE Handled(j.value, NoExc)

(***************************************************************************)
(* fix_image before the call (src/main.py:108-119)                         *)
(***************************************************************************)
UPLOADS_DIR == <<"u", "p", "l", "o", "a", "d", "s", "/">>
DEFAULT_EXT == <<".", "j", "p", "g">>
HINT_FILE == <<"F", "i", "l", "e", ":", " ">>
HINT_SIZE == <<",", " ", "s", "i", "z", "e", "_", "k", "b", "=">>

\* the greatest index of s that holds c, 0 when none does
LastIndex(s, c) ==
    LET at == {i \in 1..Len(s) : s[i] = c}
    IN  IF at = {} THEN 0 ELSE CHOOSE i \in at : \A j \in at : j <= i

\* os.path.splitext(name)[1]: from the last dot of the last path component on,
\* unless only dots precede it there
splitext_ext(name) ==
    LET sepIndex == LastIndex(name, "/")
        dotIndex == LastIndex(name, ".")
    IN  IF dotIndex > sepIndex /\ \E k \in (sepIndex + 1)..(dotIndex - 1) : name[k] # "."
        THEN SubSeq(name, dotIndex, Len(name))
        ELSE <<>>

\* str(n) for an int n >= 0
RECURSIVE IntStr(_)
IntStr(n) == IF n < 10 THEN <<Digits[n + 1]>> ELSE IntStr(n \div 10) \o <<Digits[(n % 10) + 1]>>

\* an uploaded file: its name and its content (data names the bytes, len is
\* their number); NoFile is file = None
Upload(filename, data, len) ==
    [none |-> FALSE, filename |-> filename, content |-> [data |-> data, len |-> len]]
NoFile == [none |-> TRUE, filename |-> <<>>, content |-> [data |-> 0, len |-> 0]]

\* saved_path = f"uploads/{uuid.uuid4().hex}{ext}" (lines 112-113)
make_saved_path(filename, hex) ==
    LET ext == IF splitext_ext(filename) # <<>> THEN splitext_ext(filename) ELSE DEFAULT_EXT
    IN  UPLOADS_DIR \o hex \o ext

\* image_hint = f"File: {saved_path}, size_kb={len(content)//1024}" (line 117)
make_image_hint(path, content) ==
    HINT_FILE \o path \o HINT_SIZE \o IntStr(content.len \div 1024)

\* uuid.uuid4().hex: an identifier no earlier call returned.  The model's
\* identifiers are two hex digits wide (the program's are 32) and NumUUID many.
HEX == <<"0", "1", "2", "3", "4", "5", "6", "7", "8", "9", "a", "b", "c", "d", "e", "f">>
NumUUID == 2
UUIDs == {<<HEX[(k \div 16) + 1], HEX[(k % 16) + 1]>> : k \in 1..NumUUID}
\* uuid4_hex with a bug: an identifier may come back twice
uuid4_hex_repeating(issued) == UUIDs
uuid4_hex(issued) == UUIDs \ issued

(***************************************************************************)
(* The requests in flight.  A request is one run of a handler; the event   *)
(* loop runs a handler from one await to the next without interruption, so *)
(* each action is the code between two awaits.                             *)
(***************************************************************************)
NumReq == 2
Requests == 1..NumReq

VARIABLES
    pc,          \* pc[r]: "idle" (not sent yet), "read" (at await file.read()),
                 \*        "llm" (at await client.post), "done" (answered)
    endpoint,    \* endpoint[r]: "fix" or "fix_image" ("" while idle)
    problem,     \* problem[r]: the form field problem
    file,        \* file[r]: the form field file
    saved_path,  \* saved_path[r]: the local saved_path (Optional[str])
    prompt,      \* prompt[r]: the prompt of the payload posted
    posts,       \* posts[r]: how many times client.post was called
    upstream,    \* upstream[r]: what client.post brought back
    llm,         \* llm[r]: how call_llm ended
    ending,      \* ending[r]: how the handler ended
    responses,   \* responses[r]: the responses sent to the client, in order
    uploads,     \* the directory uploads/: path -> content
    issued,      \* the identifiers uuid4 has returned
    pb_in,       \* Prompt Builder on its own: its arguments,
    pb_out       \*   and its result (None before the call)

vars == <<pc, endpoint, problem, file, saved_path, prompt, posts, upstream, llm, ending,
          responses, uploads, issued, pb_in, pb_out>>
pb_vars == <<pb_in, pb_out>>
req_vars == <<pc, endpoint, problem, file, saved_path, prompt, posts, upstream, llm, ending,
              responses, uploads, issued>>

NoEnding == [resp |-> Response(0, "", PyNone), exc |-> NoExc, escaped |-> FALSE]
NoPromptArgs == [user_text |-> <<>>, image_hint |-> NoneStr]

InitRequests ==
    /\ pc = [r \in Requests |-> "idle"]
    /\ endpoint = [r \in Requests |-> ""]
    /\ problem = [r \in Requests |-> <<>>]
    /\ file = [r \in Requests |-> NoFile]
    /\ saved_path = [r \in Requests |-> NoneStr]
    /\ prompt = [r \in Requests |-> <<>>]
    /\ posts = [r \in Requests |-> 0]
    /\ upstream = [r \in Requests |-> NoOutcome]
    /\ llm = [r \in Requests |-> Return(PyNone)]
    /\ ending = [r \in Requests |-> NoEnding]
    /\ responses = [r \in Requests |-> <<>>]
    /\ uploads = <<>>
    /\ issued = {}

Init ==
    /\ InitRequests
    /\ pb_in = NoPromptArgs
    /\ pb_out = NoneStr

\* the form field problem of the modelled requests
Problems == {<<"t", "a", "p">>, <<" ", "a", "\n">>}
\* the one the requests that run concurrently send
CoreProblems == {<<"t", "a", "p">>}
\* the uploads of the modelled requests: one with an extension, one without
Files == {Upload(<<"a", ".", "p", "n", "g">>, 1, 100), Upload(<<"b">>, 2, 2048)}

\* POST /fix arrives: fix runs up to await client.post (lines 98-101, 69-73)
ReceiveFix(r, problems) ==
    /\ pc[r] = "idle"
    /\ \E p \in problems :
        /\ problem' = [problem EXCEPT ![r] = p]
        /\ prompt' = [prompt EXCEPT ![r] = build_repair_prompt(p, NoneStr)]
    /\ endpoint' = [endpoint EXCEPT ![r] = "fix"]
    /\ posts' = [posts EXCEPT ![r] = @ + 1]
    /\ pc' = [pc EXCEPT ![r] = "llm"]
    /\ UNCHANGED <<file, saved_path, upstream, llm, ending, responses, uploads, issued, pb_vars>>

\* POST /fix-image arrives: fix_image runs up to await file.read() when a file
\* was sent (lines 108-114), else up to await client.post (lines 108-122, 69-73)
ReceiveFixImage(r, problems) ==
    /\ pc[r] = "idle"
    /\ endpoint' = [endpoint EXCEPT ![r] = "fix_image"]
    /\ \E p \in problems, f \in Files \cup {NoFile} :
        /\ problem' = [problem EXCEPT ![r] = p]
        /\ file' = [file EXCEPT ![r] = f]
        /\ IF f.none
           THEN /\ prompt' = [prompt EXCEPT ![r] = build_repair_prompt(p, NoneStr)]
                /\ posts' = [posts EXCEPT ![r] = @ + 1]
                /\ pc' = [pc EXCEPT ![r] = "llm"]
                /\ UNCHANGED <<saved_path, issued>>
           ELSE /\ \E hex \in uuid4_hex(issued) :
                    /\ issued' = issued \cup {hex}
                    /\ saved_path' =
                         [saved_path EXCEPT ![r] = SomeStr(make_saved_path(f.filename, hex))]
                /\ pc' = [pc EXCEPT ![r] = "read"]
                /\ UNCHANGED <<prompt, posts>>
    /\ UNCHANGED <<upstream, llm, ending, responses, uploads, pb_vars>>

\* open(saved_path, "wb") and f.write(content) on the directory (lines 115-116)
write_file(dir, path, content) == DictSet(dir, path, content)

\* file.read() returns: the file is written and fix_image runs up to
\* await client.post (lines 114-122, 69-73)
ReadDone(r) ==
    /\ pc[r] = "read"
    /\ uploads' = write_file(uploads, saved_path[r].s, file[r].content)
    /\ prompt' = [prompt EXCEPT ![r] = build_repair_prompt(problem[r],
                     SomeStr(make_image_hint(saved_path[r].s, file[r].content)))]
    /\ posts' = [posts EXCEPT ![r] = @ + 1]
    /\ pc' = [pc EXCEPT ![r] = "llm"]
    /\ UNCHANGED <<endpoint, problem, file, saved_path, upstream, llm, ending, responses,
                   issued, pb_vars>>

\* the handler ends as e says, call_llm having ended as c says: the response
\* goes to the client
Finish(r, outcome, c, e) ==
    /\ upstream' = [upstream EXCEPT ![r] = outcome]
    /\ llm' = [llm EXCEPT ![r] = c]
    /\ ending' = [ending EXCEPT ![r] = e]
    /\ responses' = [responses EXCEPT ![r] = Append(@, e.resp)]
    /\ pc' = [pc EXCEPT ![r] = "done"]
    /\ UNCHANGED <<endpoint, problem, file, saved_path, prompt, posts, uploads, issued,
                   pb_vars>>

\* FixReturn with a bug: after a failed call, the call is made once more
FixReturn_retry(r, outcomes) ==
    /\ pc[r] = "llm"
    /\ endpoint[r] = "fix"
    /\ \E outcome \in outcomes :
        LET c == call_llm(outcome)
        IN  IF c.raised /\ posts[r] < 2
            THEN /\ posts' = [posts EXCEPT ![r] = @ + 1]
                 /\ UNCHANGED <<pc, endpoint, problem, file, saved_path, prompt, upstream,
                                llm, ending, responses, uploads, issued, pb_vars>>
            ELSE Finish(r, outcome, c, fix_finish(c))

\* client.post returns to fix with one of outcomes: the rest of call_llm and of
\* fix run (lines 74-94, 102-104)
FixReturn(r, outcomes) ==
    /\ pc[r] = "llm"
    /\ endpoint[r] = "fix"
    /\ \E outcome \in outcomes :
        LET c == call_llm(outcome) IN Finish(r, outcome, c, fix_finish(c))

\* client.post returns to fix_image with one of outcomes: the rest of call_llm
\* and of fix_image run (lines 74-94, 123-129)
FixImageReturn(r, outcomes) ==
    /\ pc[r] = "llm"
    /\ endpoint[r] = "fix_image"
    /\ \E outcome \in outcomes :
        LET c == call_llm(outcome)
        IN  Finish(r, outcome, c, fix_image_finish(c, saved_path[r]))

(***************************************************************************)
(* The inputs of the model.                                                *)
(***************************************************************************)
\* the JSON text of a value, written compactly (no whitespace); a float is
\* written <n>e<e>
RECURSIVE json_dumps(_), DumpsItems(_, _), DumpsMembers(_, _)
json_dumps(v) ==
    IF v.t = "int" THEN IntStr(v.n)
    ELSE IF v.t = "float" THEN IntStr(v.n) \o <<"e">> \o IntStr(v.e)
    ELSE IF v.t = "str" THEN <<"\"">> \o v.s \o <<"\"">>
    ELSE IF v.t = "list" THEN <<"[">> \o DumpsItems(v.a, 1) \o <<"]">>
    ELSE <<"{">> \o DumpsMembers(v.o, DOMAIN v.o) \o <<"}">>
DumpsItems(a, i) ==
    IF i > Len(a) THEN <<>>
    ELSE json_dumps(a[i]) \o (IF i < Len(a) THEN <<",">> ELSE <<>>) \o DumpsItems(a, i + 1)
DumpsMembers(o, keys) ==
    IF keys = {} THEN <<>>
    ELSE
        LET k == CHOOSE x \in keys : TRUE
        IN  <<"\"">> \o k \o <<"\"", ":">> \o json_dumps(o[k])
              \o (IF keys # {k} THEN <<",">> ELSE <<>>) \o DumpsMembers(o, keys \ {k})

\* JSON values: numbers (1e999 and 2e3 are JSON numbers; no float holds the
\* first), a string, lists and objects of them
Atoms == {PyInt(1), PyInt(20), PyStr(<<"o", "k">>), PyFloat(2, 3), PyFloat(1, 999)}
Keys == {<<"a">>, <<"b", "c">>}
Level1 ==
    Atoms \cup {PyList(<<>>), PyDict(<<>>)}
          \cup {PyList(<<x>>) : x \in Atoms}
          \cup {PyList(<<PyInt(1), x>>) : x \in Atoms}
          \cup {PyDict(k :> x) : k \in Keys, x \in Atoms}
JsonObjects ==
    {PyDict(<<>>), PyDict(IMAGE_SAVED_KEY :> PyStr(<<"z">>))}
        \cup {PyDict(k :> x) : k \in Keys, x \in Level1}
        \cup {PyDict((<<"a">> :> x) @@ (<<"b", "c">> :> y)) : x, y \in Atoms}
JsonValues == JsonObjects \cup Level1

\* the value is one json.loads can return: none of its floats is out of range
RECURSIVE IsPyValue(_)
IsPyValue(v) ==
    /\ v.t = "float" => ~FloatOverflows(v.n, v.e)
    /\ \A i \in DOMAIN v.a : IsPyValue(v.a[i])
    /\ \A k \in DOMAIN v.o : IsPyValue(v.o[k])

\* prose around a JSON text
Prefixes == {<<>>, <<"H", "i", ":", "\n">>, <<"x", "{">>, <<" ">>}
Suffixes == {<<>>, <<"\n", "o", "k">>, <<"}", "y">>, <<"\n">>}
Wrapped ==
    {pre \o json_dumps(v) \o post :
        pre \in Prefixes, post \in Suffixes,
        v \in {PyDict(<<>>), PyDict(<<"a">> :> PyInt(1)),
               PyDict(<<"a">> :> PyDict(<<"b", "c">> :> PyList(<<PyInt(1)>>)))}}
\* texts written by hand: broken JSON, several objects, braces inside strings
HandTexts ==
    {<<"n", "o", " ", "j", "s", "o", "n", " ", "h", "e", "r", "e">>,
     <<"{", "x", "}">>,
     <<"}", "{">>,
     <<"{", "\"", "a", "\"", ":", "1", "}", "x", "{", "\"", "b", "\"", ":", "2", "}">>,
     <<"{", "\"", "a", "\"", ":", "1", ",", "\"", "a", "\"", ":", "2", "}">>,
     <<"{", " ", "\"", "a", "\"", " ", ":", " ", "1", " ", "}">>,
     <<>>,
     <<"{", "\"", "a", "\"", ":", "1">>,
     <<"[", "1", ",", "]">>,
     <<"{", "\"", "a", "\"", ":", "1", ",", "}">>,
     <<"0", "1">>,
     <<"x", "{", "\"", "a", "\"", ":", "{", "\"", "b", "\"", ":", "1", "}", "}", "y">>,
     <<"{", "\"", "a", "\"", ":", "\"", "}", "\"", "}">>,
     <<"{", "\"", "a", "\"", ":", "\"", "{", "\"", "}">>,
     <<"\"", "a", "\n", "b", "\"">>,
     <<"H", "e", "r", "e", ":", "\n", "{", "\"", "a", "\"", ":", "1", "}", "\n", "o", "k">>,
     <<"{">>,
     <<"}">>,
     <<"{", "}", "{", "}">>,
     <<"[", "{", "\"", "a", "\"", ":", "1", "}", "]", "x">>,
     <<"{", "\"", "a", "\"", ":", "1", "e", "}">>,
     <<"1", "7", "9", "8", "e", "3", "0", "5">>}
Texts == {json_dumps(v) : v \in JsonValues} \cup Wrapped \cup HandTexts

\* what client.post can bring back when it does not bring a candidate
Failures ==
    {Outcome("http_status_error", <<"q", "u", "o", "t", "a">>),
     Outcome("request_error", <<>>),
     Outcome("no_candidates", <<>>),
     Outcome("bad_shape", <<>>)}
AllOutcomes == Failures \cup {Outcome("candidate", text) : text \in Texts}
\* the outcomes the requests that run concurrently draw from: a timeout, an
\* object, a list, and braces around no JSON
CoreOutcomes ==
    {Outcome("request_error", <<>>)}
        \cup {Outcome("candidate", text) :
                      text \in {json_dumps(PyDict(<<"a">> :> PyInt(1))),
                                json_dumps(PyList(<<PyInt(1)>>)),
                                <<"{", "x", "}">>}}

(***************************************************************************)
(* Specifications.                                                         *)
(***************************************************************************)
Step(r, problems, outcomes) ==
    \/ ReceiveFix(r, problems)
    \/ ReceiveFixImage(r, problems)
    \/ ReadDone(r)
    \/ FixReturn(r, outcomes)
    \/ FixImageReturn(r, outcomes)

\* NumReq requests, interleaved in every way
Next == \E r \in Requests : Step(r, CoreProblems, CoreOutcomes)
Spec == Init /\ [][Next]_vars

\* file.read() returns, and client.post returns or times out (timeout=60)
Resume(r) ==
    \/ ReadDone(r)
    \/ FixReturn(r, CoreOutcomes)
    \/ FixImageReturn(r, CoreOutcomes)
Fairness == \A r \in Requests : WF_vars(Resume(r))
FairSpec == Spec /\ Fairness

\* one request, over every modelled outcome of the call
NextSingle == Step(1, Problems, AllOutcomes)
SpecSingle == Init /\ [][NextSingle]_vars

\* Prompt Builder on its own, over problem texts and hints
PromptCores ==
    {<<>>, <<"a">>, <<"a", " ", "b">>, <<"|", " ", "I", "m", "a", "g", "e", " ", "h", "i", "n", "t", ":">>,
     <<"x", " ", "|", " ", "I", "m", "a", "g", "e", " ", "h", "i", "n", "t", ":", " ", "y">>}
PromptTexts ==
    {pre \o core \o post :
        pre \in {<<>>, <<" ">>, <<"\n", " ">>}, core \in PromptCores,
        post \in {<<>>, <<" ">>, <<"\t", "\n">>}}
PromptHints ==
    {NoneStr, SomeStr(<<>>), SomeStr(<<"h">>), SomeStr(<<" ">>),
     SomeStr(make_image_hint(make_saved_path(<<"a", ".", "p", "n", "g">>, <<"0", "1">>),
                             [data |-> 1, len |-> 2048]))}

InitPrompt ==
    /\ InitRequests
    /\ pb_in \in [user_text : PromptTexts, image_hint : PromptHints]
    /\ pb_out = NoneStr

BuildPrompt ==
    /\ pb_out.none
    /\ pb_out' = SomeStr(build_repair_prompt(pb_in.user_text, pb_in.image_hint))
    /\ UNCHANGED <<pb_in, req_vars>>

SpecPrompt == InitPrompt /\ [][BuildPrompt]_vars

(***************************************************************************)
(* Properties.                                                             *)
(***************************************************************************)
\* s ends with t
EndsWith(s, t) == Len(t) <= Len(s) /\ SubSeq(s, Len(s) - Len(t) + 1, Len(s)) = t
\* t occurs in s
Contains(s, t) == \E i \in 1..(Len(s) - Len(t) + 1) : SubSeq(s, i, i + Len(t) - 1) = t
\* the literal "| Image hint:"
BAR_IMAGE_HINT == SubSeq(IMAGE_HINT_SEP, 2, Len(IMAGE_HINT_SEP) - 1)
\* request r is answered, the call having brought a candidate text
Normalized(r) == pc[r] = "done" /\ upstream[r].kind = "candidate"
\* the least index of s that holds c, 0 when none does
FirstIndex(s, c) ==
    LET at == {i \in 1..Len(s) : s[i] = c}
    IN  IF at = {} THEN 0 ELSE CHOOSE i \in at : \A j \in at : i <= j
\* the span of text from its first "{" to its last "}" (<<>> when there is none)
BraceSpan(text) ==
    IF FirstIndex(text, "{") > 0 /\ LastIndex(text, "}") > FirstIndex(text, "{")
    THEN SubSeq(text, FirstIndex(text, "{"), LastIndex(text, "}"))
    ELSE <<>>
\* body is of the form {"error": <message>}
IsErrorBody(body) ==
    body.t = "dict" /\ DOMAIN body.o = {ERROR_KEY} /\ body.o[ERROR_KEY].t = "str"

\* C1: when the candidate text is the serialization of a JSON object O (one
\* Python can hold), the parse block returns a value equal to O
C1_RoundTrip ==
    \A r \in Requests : \A O \in JsonObjects :
        (Normalized(r) /\ IsPyValue(O) /\ upstream[r].text = json_dumps(O))
            => (~llm[r].raised /\ llm[r].value = O)
C1_Witness ==
    \E r \in Requests :
        /\ Normalized(r)
        /\ upstream[r].text = json_dumps(PyDict(<<"a">> :> PyList(<<PyInt(1), PyInt(20)>>)))
        /\ llm[r].value = PyDict(<<"a">> :> PyList(<<PyInt(1), PyInt(20)>>))

\* C2 (as claimed): when neither the whole text nor its first-"{"-to-last-"}"
\* span parses, the parse block raises the invalid-JSON error, whose message
\* carries the raw text
C2_MalformedCarriesText ==
    \A r \in Requests :
        (/\ Normalized(r)
         /\ ~json_loads(upstream[r].text).ok
         /\ ~(BraceSpan(upstream[r].text) # <<>> /\ json_loads(BraceSpan(upstream[r].text)).ok))
            => /\ llm[r].raised
               /\ llm[r].exc.cls \in {"ValueError", "JSONDecodeError"}
               /\ EndsWith(llm[r].exc.msg, upstream[r].text)

\* C3 (as claimed): a request whose processing raised an exception is answered
\* 500 with a JSON body {"error": <message>}, the exception caught by the handler
C3_FailuresUniform ==
    \A r \in Requests :
        (pc[r] = "done" /\ ending[r].exc # NoExc)
            => /\ ~ending[r].escaped
               /\ responses[r] # <<>>
               /\ responses[r][1].status = 500
               /\ responses[r][1].media = "application/json"
               /\ IsErrorBody(responses[r][1].body)

\* C4 (as claimed): /fix answers 200 with body O when the candidate text is the
\* JSON object O, and answers 200 only when call_llm returned
C4_FixRelaysObject ==
    \A r \in Requests :
        (pc[r] = "done" /\ endpoint[r] = "fix")
            => /\ \A O \in JsonObjects :
                     (upstream[r].kind = "candidate" /\ upstream[r].text = json_dumps(O))
                        => (responses[r][1].status = 200 /\ responses[r][1].body = O)
               /\ responses[r][1].status = 200 => ~llm[r].raised

\* C5 (as claimed): when call_llm returned, /fix-image answers what /fix would,
\* with the key _image_saved set to the stored path when a file was sent, and
\* exactly what /fix would when none was
C5_ImageSavedAdded ==
    \A r \in Requests :
        (pc[r] = "done" /\ endpoint[r] = "fix_image" /\ ~llm[r].raised)
            => LET got == responses[r][1]
                   fix == fix_finish(llm[r]).resp
               IN  IF file[r].none THEN got = fix
                   ELSE /\ got.status = fix.status
                        /\ got.media = fix.media
                        /\ got.body.t = "dict"
                        /\ DOMAIN got.body.o = DOMAIN fix.body.o \cup {IMAGE_SAVED_KEY}
                        /\ \A k \in DOMAIN fix.body.o \ {IMAGE_SAVED_KEY} :
                               got.body.o[k] = fix.body.o[k]
                        /\ got.body.o[IMAGE_SAVED_KEY] = PyStr(saved_path[r].s)
                        /\ saved_path[r].s \in DOMAIN uploads

\* C6: requests that sent a file have pairwise distinct paths, and from the
\* write on (whatever the call brings) the file at a request's path holds the
\* content that request uploaded
C6_UploadsKept ==
    /\ \A r1, r2 \in Requests :
          (r1 # r2 /\ ~saved_path[r1].none /\ ~saved_path[r2].none)
             => saved_path[r1].s # saved_path[r2].s
    /\ \A r \in Requests :
          (pc[r] \in {"llm", "done"} /\ ~file[r].none)
             => /\ saved_path[r].s \in DOMAIN uploads
                /\ uploads[saved_path[r].s] = file[r].content
C6_Witness ==
    \E r1, r2 \in Requests :
        /\ r1 # r2
        /\ pc[r1] = "done" /\ pc[r2] = "done"
        /\ ~file[r1].none /\ ~file[r2].none
        /\ file[r1].content # file[r2].content
        /\ llm[r1].raised /\ ~llm[r2].raised
        /\ uploads[saved_path[r1].s] = file[r1].content
        /\ uploads[saved_path[r2].s] = file[r2].content

\* C7: a request never makes a second outbound call and never gets a second
\* response, and every request sent is eventually answered with exactly one
C7_OneCallOneResponse ==
    /\ [](\A r \in Requests : posts[r] <= 1 /\ Len(responses[r]) <= 1)
    /\ \A r \in Requests :
          (pc[r] # "idle") ~> (pc[r] = "done" /\ Len(responses[r]) = 1 /\ posts[r] = 1)
C7_Witness ==
    \E r \in Requests :
        /\ pc[r] = "done"
        /\ upstream[r].kind = "request_error"
        /\ posts[r] = 1
        /\ Len(responses[r]) = 1

\* C8 (as claimed): with a non-empty problem text and no hint, the prompt ends
\* with "Problem: " + trim(P) and "| Image hint:" does not occur in it
C8_NoHintClaimed ==
    (~pb_out.none /\ pb_in.user_text # <<>> /\ pb_in.image_hint.none)
        => /\ EndsWith(pb_out.s, PROBLEM_PREFIX \o strip(pb_in.user_text))
           /\ ~Contains(pb_out.s, BAR_IMAGE_HINT)
\* C8 (amended): ... and "| Image hint:" occurs in it only if it occurs in trim(P)
C8_NoHint ==
    (~pb_out.none /\ pb_in.user_text # <<>> /\ pb_in.image_hint.none)
        => /\ EndsWith(pb_out.s, PROBLEM_PREFIX \o strip(pb_in.user_text))
           /\ Contains(pb_out.s, BAR_IMAGE_HINT)
                 => Contains(strip(pb_in.user_text), BAR_IMAGE_HINT)
C8_Witness ==
    /\ ~pb_out.none
    /\ pb_in.image_hint.none
    /\ pb_in.user_text = <<"\n", " ", "a", " ", "b", " ">>
    /\ EndsWith(pb_out.s, <<":", " ", "a", " ", "b">>)

\* C9 (as claimed): with a hint H, the prompt is the system instruction, a
\* newline, "Problem: " + trim(P), " | Image hint: " and H
C9_HintClaimed ==
    (~pb_out.none /\ ~pb_in.image_hint.none)
        => pb_out.s = SYSTEM \o <<"\n">> \o PROBLEM_PREFIX \o strip(pb_in.user_text)
                         \o <<" ">> \o BAR_IMAGE_HINT \o <<" ">> \o pb_in.image_hint.s
\* C9 (amended): the same, for a hint H that is not the empty string; for the
\* empty string the prompt is the one built with no hint
C9_Hint ==
    /\ (~pb_out.none /\ ~pb_in.image_hint.none /\ pb_in.image_hint.s # <<>>)
          => pb_out.s = SYSTEM \o <<"\n">> \o PROBLEM_PREFIX \o strip(pb_in.user_text)
                           \o <<" ">> \o BAR_IMAGE_HINT \o <<" ">> \o pb_in.image_hint.s
    /\ (~pb_out.none /\ ~pb_in.image_hint.none /\ pb_in.image_hint.s = <<>>)
          => pb_out.s = SYSTEM \o <<"\n">> \o PROBLEM_PREFIX \o strip(pb_in.user_text)
C9_Witness ==
    /\ ~pb_out.none
    /\ pb_in.user_text = <<" ", "a">>
    /\ pb_in.image_hint = SomeStr(<<"h">>)
    /\ EndsWith(pb_out.s, <<":", " ", "a", " ", "|", " ", "I", "m", "a", "g", "e", " ",
                            "h", "i", "n", "t", ":", " ", "h">>)

\* C10: when the text does not parse as a whole, the parse block returns the
\* value of the span from the first "{" to the last "}" when that span parses,
\* and raises otherwise, whatever smaller object the text holds
C10_OutermostSpan ==
    \A r \in Requests :
        (Normalized(r) /\ ~json_loads(upstream[r].text).ok)
            => IF BraceSpan(upstream[r].text) # <<>> /\ json_loads(BraceSpan(upstream[r].text)).ok
               THEN ~llm[r].raised /\ llm[r].value = json_loads(BraceSpan(upstream[r].text)).v
               ELSE llm[r].raised
C10_Witness ==
    \E r \in Requests :
        /\ Normalized(r)
        /\ upstream[r].text =
              <<"H", "i", ":", "\n", "{", "\"", "a", "\"", ":", "1", "}", "\n", "o", "k">>
        /\ llm[r] = Return(PyDict(<<"a">> :> PyInt(1)))

====
